---- MODULE Spec2Model ----
(***************************************************************************)
(* Viewport engine of the DragonSword map viewer (src/App.tsx): the React  *)
(* component App keeps scale, position, mouseCoords, isDragging and the    *)
(* dragStart ref; its handlers pan, zoom and report the pointer.           *)
(*                                                                         *)
(* Numbers are exact rationals <<n, d>> (d > 0, lowest terms); JavaScript  *)
(* doubles are idealised to the reals they approximate.  Each handler is   *)
(* one atomic action.  A handler reads scale, position and isDragging from *)
(* the closure of the render it was created in (rendered), and dragStart   *)
(* from the ref.  In Spec a render follows every event, so a handler reads *)
(* what the previous event committed; in SpecBatched the render of a       *)
(* continuous event is a step of its own.                                  *)
(***************************************************************************)
EXTENDS Integers, Sequences, FiniteSets, TLC

\* ------------------------------------------------------------- bounds
\* Length of a behaviour after the mount: a wheel event weighs 1, every
\* other event 3, so a run holds up to MaxWeight wheel notches (enough to
\* walk the scale from 0.8 to either limit and push on) or up to three
\* pointer events with the notches that still fit.
MaxWeight == 9

\* ------------------------------------------------- rational arithmetic
Abs(i) == IF i < 0 THEN -i ELSE i

RECURSIVE GCD(_, _)
GCD(a, b) == IF b = 0 THEN a ELSE GCD(b, a % b)

\* n/d in lowest terms with a positive denominator (d # 0).
QNorm(n, d) ==
  LET sn == IF d < 0 THEN -n ELSE n
      sd == Abs(d)
      g  == GCD(Abs(sn), sd)
  IN  <<sn \div g, sd \div g>>

QInt(i) == <<i, 1>>

QAdd(a, b) ==
  LET g == GCD(a[2], b[2])
  IN  QNorm(a[1] * (b[2] \div g) + b[1] * (a[2] \div g), (a[2] \div g) * b[2])

QNeg(a) == <<-a[1], a[2]>>

QSub(a, b) == QAdd(a, QNeg(b))

QMul(a, b) ==
  LET g1 == GCD(Abs(a[1]), b[2])
      g2 == GCD(Abs(b[1]), a[2])
  IN  QNorm((a[1] \div g1) * (b[1] \div g2), (a[2] \div g2) * (b[2] \div g1))

\* a / b for b # 0.
QDiv(a, b) == QMul(a, QNorm(b[2], b[1]))

QLt(a, b) ==
  LET g == GCD(a[2], b[2])
  IN  a[1] * (b[2] \div g) < b[1] * (a[2] \div g)

QLe(a, b) == ~QLt(b, a)

\* Math.min / Math.max
QMin(a, b) == IF QLt(b, a) THEN b ELSE a

QMax(a, b) == IF QLt(a, b) THEN b ELSE a

\* Mutant: Math.floor in place of Math.round.
MathRound_Floor(a) == a[1] \div a[2]

\* Math.round: the nearest integer, halves towards +infinity.
MathRound(a) == (2 * a[1] + a[2]) \div (2 * a[2])

\* --------------------------------------------------- program constants
ORIG_WIDTH == 3638

ORIG_HEIGHT == 4855

MIN_SCALE == <<1, 2>>

MAX_SCALE == <<3, 2>>

\* useState(0.8) and initialScale of the mount effect
INITIAL_SCALE == <<4, 5>>

\* the wheel step of handleWheel
WHEEL_STEP == <<1, 10>>

\* ------------------------------------------------------- environment
\* containerRef.current.getBoundingClientRect(): NoRect stands for a null
\* containerRef.current.
NoRect == [left |-> 0, top |-> 0, width |-> -1, height |-> -1]

Rect(l, t, w, h) == [left |-> l, top |-> t, width |-> w, height |-> h]

\* Surfaces the container may measure: one the map always overflows, one
\* the map only overflows at the higher scales, and one not laid out yet
\* (zero width and height).
Surfaces == { Rect(0, 0, 1000, 800), Rect(20, 10, 4000, 5000), Rect(0, 0, 0, 0) }

\* Client positions of the pointer.
Points == { <<500, 400>>, <<520, 380>>, <<1000, 800>> }

\* e.button of a mousedown: 0 is the primary button.
Buttons == { 0, 2 }

\* e.deltaY of a wheel event.
DeltaYs == { -100, 0, 100 }

Pos(x, y) == [x |-> x, y |-> y]

NoEvent == [kind |-> "none", clientX |-> 0, clientY |-> 0, button |-> 0, deltaY |-> 0]

Event(k, p, b, dy) ==
  [kind |-> k, clientX |-> p[1], clientY |-> p[2], button |-> b, deltaY |-> dy]

VARIABLES
  scale,        \* useState scale
  position,     \* useState position {x, y}
  mouseCoords,  \* useState mouseCoords {x, y} (integers)
  isDragging,   \* useState isDragging
  dragStart,    \* useRef dragStart.current {x, y}
  rendered,     \* scale, position and isDragging as the handlers' closures hold them
  rect,         \* what containerRef.current.getBoundingClientRect() returns
  mounted,      \* the mount effect has run
  imgLoaded,    \* the img element has fired onLoad
  pointer,      \* client position of the pointer
  weight,       \* weighted count of the events so far
  ev,           \* history: the event handled last
  pre,          \* history: the engine state that event was handled in
  dragFrom      \* history: pointer position and offset at the last primary mousedown

vars == <<scale, position, mouseCoords, isDragging, dragStart, rendered, rect,
          mounted, imgLoaded, pointer, weight, ev, pre, dragFrom>>

Snapshot ==
  [scale |-> scale, position |-> position, mouseCoords |-> mouseCoords,
   isDragging |-> isDragging, dragStart |-> dragStart]

\* What a render hands to the closures of the handlers.
View == [scale |-> scale, position |-> position, isDragging |-> isDragging]

\* The component renders the state just committed.
Rerender ==
  rendered' = [scale |-> scale', position |-> position', isDragging |-> isDragging']

\* ------------------------------------------------------ clampPosition
\* Mutant: clampPosition without the branch that centres a map smaller than
\* the viewport.
clampPosition_NoCenter(newX, newY, currentScale, r) ==
  IF r = NoRect THEN Pos(newX, newY)
  ELSE
    LET minX == QSub(QInt(r.width), QMul(QInt(ORIG_WIDTH), currentScale))
        minY == QSub(QInt(r.height), QMul(QInt(ORIG_HEIGHT), currentScale))
    IN  Pos(QMin(QMax(newX, minX), QInt(0)), QMin(QMax(newY, minY), QInt(0)))

clampPosition(newX, newY, currentScale, r) ==
  IF r = NoRect THEN Pos(newX, newY)
  ELSE
    LET vW   == QInt(r.width)
        vH   == QInt(r.height)
        mapW == QMul(QInt(ORIG_WIDTH), currentScale)
        mapH == QMul(QInt(ORIG_HEIGHT), currentScale)
        minX == IF QLt(mapW, vW) THEN QDiv(QSub(vW, mapW), QInt(2)) ELSE QSub(vW, mapW)
        maxX == IF QLt(mapW, vW) THEN minX ELSE QInt(0)
        minY == IF QLt(mapH, vH) THEN QDiv(QSub(vH, mapH), QInt(2)) ELSE QSub(vH, mapH)
        maxY == IF QLt(mapH, vH) THEN minY ELSE QInt(0)
        clampedX == QMin(QMax(newX, minX), maxX)
        clampedY == QMin(QMax(newY, minY), maxY)
    IN  Pos(clampedX, clampedY)

\* ------------------------------------------------------------- Init
Init ==
  /\ scale = INITIAL_SCALE
  /\ position = Pos(QInt(0), QInt(0))
  /\ mouseCoords = Pos(0, 0)
  /\ isDragging = FALSE
  /\ dragStart = Pos(QInt(0), QInt(0))
  /\ rendered = View
  /\ rect \in Surfaces
  /\ mounted = FALSE
  /\ imgLoaded = FALSE
  /\ pointer \in Points
  /\ weight = 0
  /\ ev = NoEvent
  /\ pre = Snapshot
  /\ dragFrom = [d |-> <<0, 0>>, o0 |-> Pos(QInt(0), QInt(0))]

\* ---------------------------------------------------- mount effect
\* Mutant: the mount effect without the halving that centres the map.
MountEffect_NoHalf ==
  /\ ~mounted
  /\ mounted' = TRUE
  /\ pre' = Snapshot
  /\ ev' = Event("mount", pointer, 0, 0)
  /\ IF rect # NoRect
       THEN LET initialX == QSub(QInt(rect.width), QMul(QInt(ORIG_WIDTH), INITIAL_SCALE))
                initialY == QSub(QInt(rect.height), QMul(QInt(ORIG_HEIGHT), INITIAL_SCALE))
            IN  /\ scale' = INITIAL_SCALE
                /\ position' = clampPosition(initialX, initialY, INITIAL_SCALE, rect)
       ELSE UNCHANGED <<scale, position>>
  /\ UNCHANGED <<mouseCoords, isDragging, dragStart, rect, imgLoaded, pointer,
                 weight, dragFrom>>

\* useEffect(() => {...}, [clampPosition]): runs once after the first commit.
MountEffect ==
  /\ ~mounted
  /\ mounted' = TRUE
  /\ pre' = Snapshot
  /\ ev' = Event("mount", pointer, 0, 0)
  /\ IF rect # NoRect
       THEN LET vW == QInt(rect.width)
                vH == QInt(rect.height)
                initialScale == INITIAL_SCALE
                initialX == QDiv(QSub(vW, QMul(QInt(ORIG_WIDTH), initialScale)), QInt(2))
                initialY == QDiv(QSub(vH, QMul(QInt(ORIG_HEIGHT), initialScale)), QInt(2))
            IN  /\ scale' = initialScale
                /\ position' = clampPosition(initialX, initialY, initialScale, rect)
       ELSE UNCHANGED <<scale, position>>
  /\ UNCHANGED <<mouseCoords, isDragging, dragStart, rect, imgLoaded, pointer,
                 weight, dragFrom>>

\* One more event of weight w, within the bound.
Tick(w) == weight + w <= MaxWeight /\ weight' = weight + w

\* ------------------------------------------------------- handleWheel
\* Mutant: the sign convention reversed, deltaY > 0 zooms in.
delta_Flipped(deltaY) == IF deltaY > 0 THEN WHEEL_STEP ELSE QNeg(WHEEL_STEP)

\* Mutant: deltaY = 0 is taken with the positive deltas and zooms out.
delta_ZeroOut(deltaY) == IF deltaY >= 0 THEN QNeg(WHEEL_STEP) ELSE WHEEL_STEP

\* const delta = e.deltaY > 0 ? -0.1 : 0.1
delta(deltaY) == IF deltaY > 0 THEN QNeg(WHEEL_STEP) ELSE WHEEL_STEP

\* Mutant: newScale without the upper and lower limits.
newScale_Unlimited(s, deltaY) == QAdd(s, delta(deltaY))

\* const newScale = Math.min(Math.max(scale + delta, MIN_SCALE), MAX_SCALE)
newScale(s, deltaY) == QMin(QMax(QAdd(s, delta(deltaY)), MIN_SCALE), MAX_SCALE)

\* mouseX/mouseY: the client position relative to the container.
mouseXY(p, r) == Pos(QInt(p[1] - r.left), QInt(p[2] - r.top))

\* pointX/pointY: the image-space point under display position m.
pointXY(m, pos, s) == Pos(QDiv(QSub(m.x, pos.x), s), QDiv(QSub(m.y, pos.y), s))

\* Mutant: the image point is scaled back by the old scale, so the zoom
\* keeps the offset instead of the point under the pointer.
wheelNext_OldScale(p, pos, s, ns, r) ==
  LET m  == mouseXY(p, r)
      pt == pointXY(m, pos, s)
  IN  Pos(QSub(m.x, QMul(pt.x, s)), QSub(m.y, QMul(pt.y, s)))

\* nextX/nextY of handleWheel, before clamping.
wheelNext(p, pos, s, ns, r) ==
  LET m  == mouseXY(p, r)
      pt == pointXY(m, pos, s)
  IN  Pos(QSub(m.x, QMul(pt.x, ns)), QSub(m.y, QMul(pt.y, ns)))

\* Mutant: handleWheel without the return on newScale === scale.
handleWheel_NoEarlyReturn(deltaY) ==
  /\ mounted
  /\ Tick(1)
  /\ pre' = Snapshot
  /\ ev' = Event("wheel", pointer, 0, deltaY)
  /\ LET ns == newScale(rendered.scale, deltaY)
     IN  IF rect = NoRect
           THEN UNCHANGED <<scale, position>>
           ELSE LET next == wheelNext(pointer, rendered.position, rendered.scale, ns, rect)
                IN  /\ scale' = ns
                    /\ position' = clampPosition(next.x, next.y, ns, rect)
  /\ UNCHANGED <<mouseCoords, isDragging, dragStart, rect, mounted, imgLoaded,
                 pointer, dragFrom>>

handleWheel(deltaY) ==
  /\ mounted
  /\ Tick(1)
  /\ pre' = Snapshot
  /\ ev' = Event("wheel", pointer, 0, deltaY)
  /\ LET ns == newScale(rendered.scale, deltaY)
     IN  IF ns = rendered.scale \/ rect = NoRect
           THEN UNCHANGED <<scale, position>>
           ELSE LET next == wheelNext(pointer, rendered.position, rendered.scale, ns, rect)
                IN  /\ scale' = ns
                    /\ position' = clampPosition(next.x, next.y, ns, rect)
  /\ UNCHANGED <<mouseCoords, isDragging, dragStart, rect, mounted, imgLoaded,
                 pointer, dragFrom>>

\* --------------------------------------------------- handleMouseDown
\* Mutant: the anchor is the pointer position, the offset not subtracted.
dragAnchor_NoOffset(p, pos) == Pos(QInt(p[1]), QInt(p[2]))

\* dragStart.current = { x: e.clientX - position.x, y: e.clientY - position.y }
dragAnchor(p, pos) == Pos(QSub(QInt(p[1]), pos.x), QSub(QInt(p[2]), pos.y))

\* Mutant: handleMouseDown without the button test.
handleMouseDown_AnyButton(button) ==
  /\ mounted
  /\ Tick(3)
  /\ pre' = Snapshot
  /\ ev' = Event("down", pointer, button, 0)
  /\ isDragging' = TRUE
  /\ dragStart' = dragAnchor(pointer, rendered.position)
  /\ dragFrom' = [d |-> pointer, o0 |-> position]
  /\ UNCHANGED <<scale, position, mouseCoords, rect, mounted, imgLoaded,
                 pointer>>

handleMouseDown(button) ==
  /\ mounted
  /\ Tick(3)
  /\ pre' = Snapshot
  /\ ev' = Event("down", pointer, button, 0)
  /\ IF button # 0
       THEN UNCHANGED <<isDragging, dragStart, dragFrom>>
       ELSE /\ isDragging' = TRUE
            /\ dragStart' = dragAnchor(pointer, rendered.position)
            /\ dragFrom' = [d |-> pointer, o0 |-> position]
  /\ UNCHANGED <<scale, position, mouseCoords, rect, mounted, imgLoaded,
                 pointer>>

\* --------------------------------------------------- handleMouseMove
Limit(i, lo, hi) == IF i < lo THEN lo ELSE IF i > hi THEN hi ELSE i

\* Mutant: the report keeps the image's top-left origin, y is not flipped.
displayXY_NoFlip(p, pos, s, r) ==
  LET img == pointXY(mouseXY(p, r), pos, s)
  IN  Pos(Limit(MathRound(img.x), 0, ORIG_WIDTH),
          Limit(MathRound(img.y), 0, ORIG_HEIGHT))

\* The value handed to setMouseCoords.
displayXY(p, pos, s, r) ==
  LET img      == pointXY(mouseXY(p, r), pos, s)
      displayX == MathRound(img.x)
      displayY == MathRound(QSub(QInt(ORIG_HEIGHT), img.y))
  IN  Pos(Limit(displayX, 0, ORIG_WIDTH), Limit(displayY, 0, ORIG_HEIGHT))

\* nextX/nextY of handleMouseMove, before clamping.
dragNext(p, ds) == Pos(QSub(QInt(p[1]), ds.x), QSub(QInt(p[2]), ds.y))

\* Mutant: the mousemove pans whether or not a drag is active.
movePosition_Always(p, pos, s, dragging, ds, r) ==
  LET next == dragNext(p, ds) IN clampPosition(next.x, next.y, s, r)

\* The position a mousemove commits.
movePosition(p, pos, s, dragging, ds, r) ==
  IF ~dragging THEN pos
  ELSE LET next == dragNext(p, ds) IN clampPosition(next.x, next.y, s, r)

handleMouseMove(p) ==
  /\ mounted
  /\ Tick(3)
  /\ pointer' = p
  /\ pre' = Snapshot
  /\ ev' = Event("move", p, 0, 0)
  /\ IF rect = NoRect
       THEN UNCHANGED <<mouseCoords, position>>
       ELSE /\ mouseCoords' = displayXY(p, rendered.position, rendered.scale, rect)
            /\ position' = movePosition(p, position, rendered.scale,
                                        rendered.isDragging, dragStart, rect)
  /\ UNCHANGED <<scale, isDragging, dragStart, rect, mounted, imgLoaded, dragFrom>>

\* ----------------------------------------------------- handleMouseUp
\* Mutant: onMouseLeave is not wired to handleMouseUp.
handleMouseUp_UpOnly(kind) ==
  /\ mounted
  /\ Tick(3)
  /\ pre' = Snapshot
  /\ ev' = Event(kind, pointer, 0, 0)
  /\ isDragging' = (isDragging /\ kind # "up")
  /\ UNCHANGED <<scale, position, mouseCoords, dragStart, rect, mounted,
                 imgLoaded, pointer, dragFrom>>

\* Wired to both onMouseUp and onMouseLeave.
handleMouseUp(kind) ==
  /\ mounted
  /\ Tick(3)
  /\ pre' = Snapshot
  /\ ev' = Event(kind, pointer, 0, 0)
  /\ isDragging' = FALSE
  /\ UNCHANGED <<scale, position, mouseCoords, dragStart, rect, mounted,
                 imgLoaded, pointer, dragFrom>>

\* -------------------------------------------------------- img onLoad
\* Mutant: onLoad recentres the map at the current scale.
onLoad_Recentre ==
  /\ mounted
  /\ Tick(3)
  /\ ~imgLoaded
  /\ imgLoaded' = TRUE
  /\ pre' = Snapshot
  /\ ev' = Event("load", pointer, 0, 0)
  /\ position' =
       clampPosition(
         QDiv(QSub(QInt(rect.width), QMul(QInt(ORIG_WIDTH), rendered.scale)), QInt(2)),
         QDiv(QSub(QInt(rect.height), QMul(QInt(ORIG_HEIGHT), rendered.scale)), QInt(2)),
         rendered.scale, rect)
  /\ UNCHANGED <<scale, mouseCoords, isDragging, dragStart, rect, mounted,
                 pointer, dragFrom>>

\* setPosition(prev => clampPosition(prev.x, prev.y, scale))
onLoad ==
  /\ mounted
  /\ Tick(3)
  /\ ~imgLoaded
  /\ imgLoaded' = TRUE
  /\ pre' = Snapshot
  /\ ev' = Event("load", pointer, 0, 0)
  /\ position' = clampPosition(position.x, position.y, rendered.scale, rect)
  /\ UNCHANGED <<scale, mouseCoords, isDragging, dragStart, rect, mounted,
                 pointer, dragFrom>>

\* ----------------------------------------------------------- resize
\* The host lays the container out anew; no handler of App listens.
Resize ==
  /\ mounted
  /\ Tick(3)
  /\ \E r \in Surfaces \ {rect} : rect' = r
  /\ pre' = Snapshot
  /\ ev' = Event("resize", pointer, 0, 0)
  /\ UNCHANGED <<scale, position, mouseCoords, isDragging, dragStart, mounted,
                 imgLoaded, pointer, dragFrom>>

\* ------------------------------------------- events, each rendered
\* An event (or the mount effect, or a new layout) followed by the render
\* of what it committed.
Mounted == MountEffect /\ Rerender

WheelEvent(deltaY) == handleWheel(deltaY) /\ Rerender

MouseDownEvent(button) == handleMouseDown(button) /\ Rerender

MouseMoveEvent(p) == handleMouseMove(p) /\ Rerender

MouseUpEvent(kind) == handleMouseUp(kind) /\ Rerender

LoadEvent == onLoad /\ Rerender

ResizeEvent == Resize /\ Rerender

Next ==
  \/ Mounted
  \/ \E dy \in DeltaYs : WheelEvent(dy)
  \/ \E b \in Buttons : MouseDownEvent(b)
  \/ \E p \in Points : MouseMoveEvent(p)
  \/ \E k \in {"up", "leave"} : MouseUpEvent(k)
  \/ LoadEvent
  \/ ResizeEvent

Spec == Init /\ [][Next]_vars

\* ------------------------------------------- clampPosition on its own
\* Scales, candidate coordinates and surfaces clampPosition is applied to:
\* surfaces the map overflows on both axes, on neither, and on one only.
ClampScales == { QNorm(k, 10) : k \in 5..15 }

ClampCoords == { QInt(-6000), <<-4776, 5>>, QInt(0), <<2724, 5>>, QInt(700) }

ClampSurfaces == Surfaces \cup { Rect(0, 0, 4000, 800), Rect(0, 0, 1000, 5000) }

InitClamp ==
  /\ scale \in ClampScales
  /\ position \in { Pos(x, y) : x \in ClampCoords, y \in ClampCoords }
  /\ rect \in ClampSurfaces
  /\ mouseCoords = Pos(0, 0)
  /\ isDragging = FALSE
  /\ dragStart = Pos(QInt(0), QInt(0))
  /\ rendered = View
  /\ mounted = TRUE
  /\ imgLoaded = FALSE
  /\ pointer = <<0, 0>>
  /\ weight = 0
  /\ ev = Event("candidate", <<0, 0>>, 0, 0)
  /\ pre = Snapshot
  /\ dragFrom = [d |-> <<0, 0>>, o0 |-> Pos(QInt(0), QInt(0))]

\* position := clampPosition(position.x, position.y, scale)
ApplyClamp(from, to) ==
  /\ ev.kind = from
  /\ ev' = Event(to, <<0, 0>>, 0, 0)
  /\ pre' = Snapshot
  /\ position' = clampPosition(position.x, position.y, scale, rect)
  /\ UNCHANGED <<scale, mouseCoords, isDragging, dragStart, rect, mounted,
                 imgLoaded, pointer, weight, dragFrom>>
  /\ Rerender

ClampOnce == ApplyClamp("candidate", "clamped")

ClampTwice == ApplyClamp("clamped", "reclamped")

NextClamp == ClampOnce \/ ClampTwice

SpecClamp == InitClamp /\ [][NextClamp]_vars

\* ------------------------------- events whose render may come later
\* The handlers are closures of a render (l.50-111): they read the scale,
\* position and isDragging of that render, not the state the setters have
\* queued since.  When the renderer commits is not decided by App.tsx, so
\* here it is left open for the events the renderer batches (wheel,
\* mousemove, mouseleave, load); mousedown and mouseup are discrete events
\* and are rendered before the next event is dispatched.
Render ==
  /\ rendered # View
  /\ rendered' = View
  /\ UNCHANGED <<scale, position, mouseCoords, isDragging, dragStart, rect,
                 mounted, imgLoaded, pointer, weight, ev, pre, dragFrom>>

WheelBatched(deltaY) == handleWheel(deltaY) /\ UNCHANGED rendered

MouseMoveBatched(p) == handleMouseMove(p) /\ UNCHANGED rendered

MouseLeaveBatched == handleMouseUp("leave") /\ UNCHANGED rendered

LoadBatched == onLoad /\ UNCHANGED rendered

InitBatched == Init /\ rect = Rect(0, 0, 1000, 800) /\ pointer = <<500, 400>>

NextBatched ==
  \/ Mounted
  \/ \E dy \in DeltaYs : WheelBatched(dy)
  \/ \E b \in Buttons : MouseDownEvent(b)
  \/ \E p \in Points : MouseMoveBatched(p)
  \/ MouseUpEvent("up")
  \/ MouseLeaveBatched
  \/ LoadBatched
  \/ Render

SpecBatched == InitBatched /\ [][NextBatched]_vars

\* ============================================================== claims
\* The client position of the event handled last, and that position
\* relative to the container.
evPoint == <<ev.clientX, ev.clientY>>

evLocal == Pos(QInt(ev.clientX - rect.left), QInt(ev.clientY - rect.top))

\* a <= b <= c on rationals
QBetween(a, b, c) == QLe(a, b) /\ QLe(b, c)

\* What the clamp of section 4.1 yields on one axis for candidate c, image
\* size img, surface size view and scale s.
AxisClamped(c, img, view, s) ==
  LET content == QMul(QInt(img), s)
      lo      == QSub(QInt(view), content)
  IN  IF QLe(QInt(view), content)
        THEN IF QLt(c, lo) THEN lo ELSE IF QLt(QInt(0), c) THEN QInt(0) ELSE c
        ELSE QDiv(lo, QInt(2))

\* The offset is in bounds on one axis.
AxisInBounds(o, img, view, s) ==
  LET content == QMul(QInt(img), s)
      lo      == QSub(QInt(view), content)
  IN  IF QLe(QInt(view), content)
        THEN QBetween(lo, o, QInt(0))
        ELSE QAdd(o, o) = lo

InBounds(o, s, r) ==
  /\ AxisInBounds(o.x, ORIG_WIDTH, r.width, s)
  /\ AxisInBounds(o.y, ORIG_HEIGHT, r.height, s)

\* C1: in every state after the mount recentring the committed offset is a
\* fixed point of the clamp at the committed scale and the surface size
\* current at that state.
C1_OffsetInBounds == mounted => InBounds(position, scale, rect)

\* C2: in every reachable state MIN_SCALE <= scale <= MAX_SCALE.
C2_ScaleBounds == QBetween(MIN_SCALE, scale, MAX_SCALE)

C2_Witness ==
  /\ ev.kind = "wheel" /\ ev.deltaY > 0
  /\ pre.scale = MIN_SCALE /\ scale = MIN_SCALE

\* C3: a wheel event at p that changes the scale and whose unclamped target
\* offset p - ((p - offset)/s)*s' is in bounds for s' keeps the image point
\* under p: (p - offset')/s' = (p - offset)/s on both axes.
C3_Target ==
  Pos(QSub(evLocal.x, QMul(QDiv(QSub(evLocal.x, pre.position.x), pre.scale), scale)),
      QSub(evLocal.y, QMul(QDiv(QSub(evLocal.y, pre.position.y), pre.scale), scale)))

C3_Case ==
  /\ ev.kind = "wheel"
  /\ scale # pre.scale
  /\ InBounds(C3_Target, scale, rect)

C3_ZoomToCursor ==
  C3_Case =>
    /\ QDiv(QSub(evLocal.x, position.x), scale)
         = QDiv(QSub(evLocal.x, pre.position.x), pre.scale)
    /\ QDiv(QSub(evLocal.y, position.y), scale)
         = QDiv(QSub(evLocal.y, pre.position.y), pre.scale)

C3_Witness == C3_Case /\ position # pre.position

\* C4: the clamp yields, on each axis by itself, the candidate limited to
\* [surfaceSize - image*scale, 0] when image*scale >= surfaceSize and
\* (surfaceSize - image*scale)/2 otherwise; clamping twice equals clamping
\* once.
C4_ClampPerAxis ==
  /\ ev.kind \in {"clamped", "reclamped"} =>
       /\ position.x = AxisClamped(pre.position.x, ORIG_WIDTH, rect.width, scale)
       /\ position.y = AxisClamped(pre.position.y, ORIG_HEIGHT, rect.height, scale)
  /\ ev.kind = "reclamped" => position = pre.position

C4_Witness ==
  /\ ev.kind = "reclamped"
  /\ QLt(QMul(QInt(ORIG_WIDTH), scale), QInt(rect.width))
  /\ QLe(QInt(rect.height), QMul(QInt(ORIG_HEIGHT), scale))
  /\ position.y = QSub(QInt(rect.height), QMul(QInt(ORIG_HEIGHT), scale))

\* C5: a zoom-in wheel event at scale = MAX_SCALE and a zoom-out wheel event
\* at scale = MIN_SCALE leave scale, offset, drag state, anchor and pointer
\* report as they were.
C5_Case ==
  /\ ev.kind = "wheel"
  /\ \/ ev.deltaY < 0 /\ pre.scale = MAX_SCALE
     \/ ev.deltaY > 0 /\ pre.scale = MIN_SCALE

C5_IdempotentAtBounds == C5_Case => Snapshot = pre

C5_Witness == C5_Case /\ pre.scale = MAX_SCALE /\ ev.deltaY < 0

\* C6: a pointer-move at p in a drag session begun by a primary pointer-down
\* at d with offset o0 commits clamp(o0 + (p - d), scale), the anchor being
\* d - o0; when the clamp leaves the candidate alone the offset has moved
\* from o0 by p - d.
C6_Candidate ==
  Pos(QAdd(dragFrom.o0.x, QInt(ev.clientX - dragFrom.d[1])),
      QAdd(dragFrom.o0.y, QInt(ev.clientY - dragFrom.d[2])))

C6_DragCommits ==
  /\ isDragging =>
       /\ dragStart.x = QSub(QInt(dragFrom.d[1]), dragFrom.o0.x)
       /\ dragStart.y = QSub(QInt(dragFrom.d[2]), dragFrom.o0.y)
  /\ ev.kind = "move" /\ pre.isDragging =>
       /\ position.x = AxisClamped(C6_Candidate.x, ORIG_WIDTH, rect.width, scale)
       /\ position.y = AxisClamped(C6_Candidate.y, ORIG_HEIGHT, rect.height, scale)
       /\ InBounds(C6_Candidate, scale, rect) =>
            /\ QSub(position.x, dragFrom.o0.x) = QInt(ev.clientX - dragFrom.d[1])
            /\ QSub(position.y, dragFrom.o0.y) = QInt(ev.clientY - dragFrom.d[2])

C6_Witness ==
  /\ ev.kind = "move" /\ pre.isDragging
  /\ dragFrom.d = <<500, 400>> /\ evPoint = <<520, 380>>
  /\ QSub(position.x, dragFrom.o0.x) = QInt(20)
  /\ QSub(position.y, dragFrom.o0.y) = QInt(-20)

\* C7: a non-primary pointer-down in Idle changes nothing, and from Idle
\* only a primary pointer-down starts a drag, pointer-moves until then
\* leaving scale and offset alone.
C7_Case == ev.kind = "down" /\ ev.button # 0 /\ ~pre.isDragging

C7_NonPrimaryDown ==
  /\ C7_Case => Snapshot = pre
  /\ ~pre.isDragging /\ isDragging => ev.kind = "down" /\ ev.button = 0
  /\ ~pre.isDragging /\ ev.kind = "move" =>
       scale = pre.scale /\ position = pre.position

C7_Witness == C7_Case /\ ~isDragging /\ position # Pos(QInt(0), QInt(0))

\* C8: pointer-up and pointer-leave alike end a drag and nothing else does;
\* after either the engine is Idle and stays so, its offset untouched by
\* pointer-moves, until a primary pointer-down.
C8_DragEnds ==
  /\ ev.kind \in {"up", "leave"} =>
       /\ ~isDragging
       /\ [Snapshot EXCEPT !.isDragging = pre.isDragging] = pre
  /\ pre.isDragging /\ ~isDragging => ev.kind \in {"up", "leave"}
  /\ ~pre.isDragging /\ isDragging => ev.kind = "down" /\ ev.button = 0
  /\ ~pre.isDragging /\ ev.kind = "move" => position = pre.position

C8_Witness == ev.kind = "leave" /\ pre.isDragging /\ ~isDragging

\* C9: in Idle a pointer-move changes the pointer report only.
C9_Case == ev.kind = "move" /\ ~pre.isDragging

C9_IdleMoveFrame ==
  C9_Case => [Snapshot EXCEPT !.mouseCoords = pre.mouseCoords] = pre

C9_Witness == C9_Case /\ mouseCoords # pre.mouseCoords

\* C10: an Idle pointer-move at surface-relative p reports
\* x = min(max(round((p.x - offset.x)/scale), 0), width) and
\* y = min(max(round(height - (p.y - offset.y)/scale), 0), height);
\* offset (-955.2, -1542), scale 0.8, p = (500, 400) reports (1819, 2428).
\* n is the integer nearest q (halves upwards) limited to [0, hi].
C10_Reports(n, q, hi) ==
  /\ n \in 0..hi
  /\ n > 0  => QLe(QSub(QInt(n), <<1, 2>>), q)
  /\ n < hi => QLt(q, QAdd(QInt(n), <<1, 2>>))

C10_PointerReport ==
  ev.kind = "move" /\ ~pre.isDragging =>
    /\ C10_Reports(mouseCoords.x,
                   QDiv(QSub(evLocal.x, position.x), scale), ORIG_WIDTH)
    /\ C10_Reports(mouseCoords.y,
                   QSub(QInt(ORIG_HEIGHT), QDiv(QSub(evLocal.y, position.y), scale)),
                   ORIG_HEIGHT)
    /\ (/\ position = Pos(<<-4776, 5>>, QInt(-1542))
        /\ scale = <<4, 5>>
        /\ evLocal = Pos(QInt(500), QInt(400)))
         => mouseCoords = Pos(1819, 2428)

C10_Witness ==
  /\ ev.kind = "move" /\ ~pre.isDragging
  /\ position = Pos(<<-4776, 5>>, QInt(-1542)) /\ scale = <<4, 5>>
  /\ evLocal = Pos(QInt(500), QInt(400))
  /\ mouseCoords = Pos(1819, 2428)

\* C11: after the mount recentring on a measured surface of any size the
\* scale is 0.8 and the offset is (surfaceSize - imageSize*scale)/2 on each
\* axis, which is in bounds; a 1000x800 surface gives (-955.2, -1542).
C11_Centre(img, view) ==
  QDiv(QSub(QInt(view), QMul(QInt(img), <<4, 5>>)), QInt(2))

C11_MountCentres ==
  ev.kind = "mount" /\ rect # NoRect =>
    /\ scale = <<4, 5>>
    /\ position = Pos(C11_Centre(ORIG_WIDTH, rect.width),
                      C11_Centre(ORIG_HEIGHT, rect.height))
    /\ InBounds(position, scale, rect)
    /\ (rect.width = 1000 /\ rect.height = 800)
         => position = Pos(<<-4776, 5>>, QInt(-1542))

C11_Witness ==
  /\ ev.kind = "mount" /\ rect.width = 1000 /\ rect.height = 800
  /\ position = Pos(<<-4776, 5>>, QInt(-1542))

\* C12 as claimed: the image-load event commits the offset that centres the
\* image at the current scale, (surfaceSize - imageSize*scale)/2 per axis
\* (which the clamp returns as it is), whatever zooms and pans preceded it
\* (stated for a surface of positive size).
C12_CentreAt(img, view, s) == QDiv(QSub(QInt(view), QMul(QInt(img), s)), QInt(2))

C12_Centred ==
  position = Pos(C12_CentreAt(ORIG_WIDTH, rect.width, scale),
                 C12_CentreAt(ORIG_HEIGHT, rect.height, scale))

C13_Unavailable == rect = NoRect \/ rect.width = 0 \/ rect.height = 0

C13_DegenerateNoOp ==
  C13_Unavailable /\ ev.kind \in {"mount", "wheel", "move", "load"} =>
    scale = pre.scale /\ position = pre.position

\* C14: every handler computes from the scale, offset and drag state the
\* immediately preceding event committed, so the state after an event is
\* that of applying the operation to the state just before it: a wheel
\* event steps the scale from the committed scale and re-anchors from the
\* committed offset, a pointer-move reports and pans from the committed
\* scale, offset and drag state, a primary pointer-down anchors at the
\* committed offset.
C14_WheelSequential ==
  LET ns   == newScale(pre.scale, ev.deltaY)
      next == wheelNext(evPoint, pre.position, pre.scale, ns, rect)
  IN  /\ scale = ns
      /\ ns # pre.scale => position = clampPosition(next.x, next.y, ns, rect)
      /\ ns = pre.scale => position = pre.position

C14_MoveSequential ==
  /\ mouseCoords = displayXY(evPoint, pre.position, pre.scale, rect)
  /\ position = movePosition(evPoint, pre.position, pre.scale, pre.isDragging,
                             pre.dragStart, rect)

C14_Sequential ==
  /\ ev.kind = "wheel" => C14_WheelSequential
  /\ ev.kind = "move" => C14_MoveSequential
  /\ ev.kind = "down" /\ ev.button = 0 =>
       isDragging /\ dragStart = dragAnchor(evPoint, pre.position)

\* C15: a wheel event with deltaY > 0 commits max(MIN_SCALE, scale - 0.1),
\* one with deltaY < 0 commits min(MAX_SCALE, scale + 0.1); the scale is
\* always one of 0.5, 0.6, ..., 1.5 and no event moves it by more than 0.1.
C15_Grid == { QNorm(k, 10) : k \in 5..15 }

C15_Step == <<1, 10>>

C15_WheelStep ==
  /\ scale \in C15_Grid
  /\ QLe(QSub(scale, pre.scale), C15_Step)
  /\ QLe(QSub(pre.scale, scale), C15_Step)
  /\ ev.kind = "wheel" /\ ev.deltaY > 0 =>
       scale = QMax(MIN_SCALE, QSub(pre.scale, C15_Step))
  /\ ev.kind = "wheel" /\ ev.deltaY < 0 =>
       scale = QMin(MAX_SCALE, QAdd(pre.scale, C15_Step))

C15_Witness ==
  /\ ev.kind = "wheel"
  /\ ev.deltaY < 0
  /\ pre.scale = <<4, 5>>
  /\ scale = <<9, 10>>

\* C16: when the image point under the pointer of a pointer-move lies
\* inside the image, mapping the reported coordinate (x, y) back to the
\* display through the transform the report was taken in, as
\* (x * scale + offset.x, (ORIG_HEIGHT - y) * scale + offset.y), gives the
\* pointer position to within scale / 2 on each axis.
C16_Img == pointXY(evLocal, pre.position, pre.scale)

C16_Inside ==
  /\ QBetween(QInt(0), C16_Img.x, QInt(ORIG_WIDTH))
  /\ QBetween(QInt(0), C16_Img.y, QInt(ORIG_HEIGHT))

C16_Back ==
  Pos(QAdd(QMul(QInt(mouseCoords.x), pre.scale), pre.position.x),
      QAdd(QMul(QInt(ORIG_HEIGHT - mouseCoords.y), pre.scale), pre.position.y))

C16_Near(a, b, tol) == QLe(QSub(a, b), tol) /\ QLe(QSub(b, a), tol)

C16_Case == ev.kind = "move" /\ rect # NoRect /\ C16_Inside

C16_RoundTrip ==
  C16_Case =>
    /\ C16_Near(C16_Back.x, evLocal.x, QDiv(pre.scale, QInt(2)))
    /\ C16_Near(C16_Back.y, evLocal.y, QDiv(pre.scale, QInt(2)))

C16_Witness ==
  /\ C16_Case
  /\ pre.scale # INITIAL_SCALE
  /\ C16_Back.x # evLocal.x
  /\ C16_Back.y # evLocal.y

\* C17: after a pointer-move, dragging or not, the published report is the
\* clamped, rounded, flipped image coordinate under the pointer with
\* respect to the scale and offset that same event committed.
C17_ReportAfterMove ==
  ev.kind = "move" /\ rect # NoRect /\ rect.width > 0 =>
    mouseCoords = displayXY(evPoint, position, scale, rect)

\* C18: while a drag is active, a pointer-move at the position of the most
\* recent pointer event leaves scale and offset unchanged, whatever was
\* handled since the drag began, a wheel zoom included (stated for moves
\* from a state whose offset is within the clamp bounds).
C18_StillMove ==
  /\ ev'.kind = "move"
  /\ isDragging
  /\ pointer' = pointer
  /\ rect.width > 0
  /\ InBounds(position, scale, rect)

C18_StillMoveKeeps ==
  [][C18_StillMove => scale' = scale /\ position' = position]_vars

\* C19: a wheel event with deltaY = 0 is a zoom-in: below MAX_SCALE it
\* raises the scale by 0.1 (limited to MAX_SCALE) and commits the clamp of
\* the offset that keeps the image point under the pointer, as a
\* deltaY < 0 event does; at MAX_SCALE it changes nothing.
C19_Case == ev.kind = "wheel" /\ ev.deltaY = 0 /\ rect # NoRect

C19_ZeroDeltaZoomsIn ==
  C19_Case =>
    /\ scale = QMin(MAX_SCALE, QAdd(pre.scale, <<1, 10>>))
    /\ QLt(pre.scale, MAX_SCALE) =>
         /\ QLt(pre.scale, scale)
         /\ position.x = AxisClamped(C3_Target.x, ORIG_WIDTH, rect.width, scale)
         /\ position.y = AxisClamped(C3_Target.y, ORIG_HEIGHT, rect.height, scale)
    /\ pre.scale = MAX_SCALE => scale = pre.scale /\ position = pre.position

C19_Witness ==
  /\ C19_Case
  /\ QLt(pre.scale, scale)
  /\ position # pre.position
  /\ rect.width > 0
====
